---------------------------- MODULE Spec2Model ----------------------------
(***************************************************************************)
(* Model of api/telegram_webhook.py: the POST /webhook handler, the update *)
(* dispatcher (process_telegram_update, handle_message,                    *)
(* handle_callback_query), the outbound client (send_message,              *)
(* send_message_with_keyboard, answer_callback_query) and GET /setup.      *)
(*                                                                         *)
(* A Python str is a sequence of characters, each a one-character string;  *)
(* a character outside ASCII is written by its code point ("U+1F504").     *)
(* Optional[T] is a sequence of length at most one: None is <<>> and a     *)
(* value v is <<v>>.  A JSON object is a function whose domain is the set  *)
(* of keys present in it.                                                  *)
(*                                                                         *)
(* The handlers are coroutines: a request runs atomically up to the await  *)
(* of its outbound HTTP call and is resumed when the call returns, so the  *)
(* actions are the segments between those awaits.                          *)
(***************************************************************************)
EXTENDS Integers, Sequences, FiniteSets, TLC

VARIABLES
    pc,          \* pc[r]: "idle", "await" (an outbound call is pending), "done"
    req,         \* req[r]: the inbound request held by slot r
    update,      \* update[r]: the local `update` of webhook_handler (Optional)
    calls,       \* calls[r]: the outbound calls issued for r, in order
    results,     \* results[r]: how each of those calls ended
    printed,     \* printed[r]: the messages print()ed while handling r
    resp,        \* resp[r]: the HTTP response of r (Optional)
    registered   \* whether the platform holds a webhook registration

vars == <<pc, req, update, calls, results, printed, resp, registered>>

\* ------------------------------------------------------------------ bounds

\* Number of request slots: requests that can be in flight together.
NumRequests == 2

\* Message texts are built from at most MaxChunks chunks (see Chunks).
MaxChunks == 4

Requests == 1 .. NumRequests

\* ----------------------------------------------------------------- Optional

None == <<>>

Some(v) == <<v>>

\* obj.get(k) of a JSON object, as an Optional
Opt(obj, k) == IF k \in DOMAIN obj THEN <<obj[k]>> ELSE <<>>

With(obj, k, v) == [x \in DOMAIN obj \cup {k} |-> IF x = k THEN v ELSE obj[x]]

Without(obj, k) == [x \in DOMAIN obj \ {k} |-> obj[x]]

\* ------------------------------------------------------------- str methods

\* str.startswith(prefix)
StartsWith(s, prefix) ==
    /\ Len(s) >= Len(prefix)
    /\ SubSeq(s, 1, Len(prefix)) = prefix

\* str.replace(old, new): every non-overlapping occurrence, left to right
\* (old is non-empty here)
RECURSIVE Replace(_, _, _)
Replace(s, old, new) ==
    IF s = <<>> THEN <<>>
    ELSE IF StartsWith(s, old)
         THEN new \o Replace(SubSeq(s, Len(old) + 1, Len(s)), old, new)
         ELSE <<Head(s)>> \o Replace(Tail(s), old, new)

\* the characters str.strip() removes (of those the model's texts hold)
Whitespace == {" ", "\t", "\n", "\r", "\f"}

RECURSIVE LStrip(_)
LStrip(s) ==
    IF s # <<>> /\ Head(s) \in Whitespace THEN LStrip(Tail(s)) ELSE s

RECURSIVE RStrip(_)
RStrip(s) ==
    IF s # <<>> /\ s[Len(s)] \in Whitespace
    THEN RStrip(SubSeq(s, 1, Len(s) - 1))
    ELSE s

\* str.strip()
Strip(s) == RStrip(LStrip(s))

\* `sub in s`
Contains(s, sub) ==
    \E i \in 0 .. (Len(s) - Len(sub)) : SubSeq(s, i + 1, i + Len(sub)) = sub

Digit(d) ==
    CASE d = 0 -> "0" [] d = 1 -> "1" [] d = 2 -> "2" [] d = 3 -> "3"
      [] d = 4 -> "4" [] d = 5 -> "5" [] d = 6 -> "6" [] d = 7 -> "7"
      [] d = 8 -> "8" [] d = 9 -> "9"

RECURSIVE NatToStr(_)
NatToStr(n) ==
    IF n < 10 THEN <<Digit(n)>> ELSE NatToStr(n \div 10) \o <<Digit(n % 10)>>

\* str(i) of an int, as an f-string formats it
IntToStr(i) == IF i < 0 THEN <<"-">> \o NatToStr(-i) ELSE NatToStr(i)

\* ---------------------------------------------------------- string literals

CmdStart ==
    <<"/", "s", "t", "a", "r", "t">>

CmdHelp ==
    <<"/", "h", "e", "l", "p">>

CmdEcho ==
    <<"/", "e", "c", "h", "o">>

CmdStatus ==
    <<"/", "s", "t", "a", "t", "u", "s">>

CmdKeyboard ==
    <<"/", "k", "e", "y", "b", "o", "a", "r", "d">>

CmdInfo ==
    <<"/", "i", "n", "f", "o">>

DefaultUserName ==
    <<"U", "s", "e", "r">>

StartHello ==
    <<"U+1F916", " ", "H", "e", "l", "l", "o", " ">>

StartWelcome ==
    <<"!", " ", "W", "e", "l", "c", "o", "m", "e", " ", "t", "o", " ", "t",
      "h", "e", " ", "b", "o", "t", "!", "\n", "\n", "U", "s", "e", " ",
      "/", "h", "e", "l", "p", " ", "t", "o", " ", "s", "e", "e", " ", "a",
      "v", "a", "i", "l", "a", "b", "l", "e", " ", "c", "o", "m", "m", "a",
      "n", "d", "s", ".">>

HelpText ==
    <<"\n", "U+1F4CB", " ", "<", "b", ">", "A", "v", "a", "i", "l", "a",
      "b", "l", "e", " ", "C", "o", "m", "m", "a", "n", "d", "s", ":", "<",
      "/", "b", ">", "\n", "\n", "/", "s", "t", "a", "r", "t", " ", "-",
      " ", "S", "t", "a", "r", "t", " ", "t", "h", "e", " ", "b", "o", "t",
      "\n", "/", "h", "e", "l", "p", " ", "-", " ", "S", "h", "o", "w",
      " ", "t", "h", "i", "s", " ", "h", "e", "l", "p", " ", "m", "e", "s",
      "s", "a", "g", "e", " ", " ", "\n", "/", "e", "c", "h", "o", " ",
      "[", "t", "e", "x", "t", "]", " ", "-", " ", "E", "c", "h", "o", " ",
      "y", "o", "u", "r", " ", "m", "e", "s", "s", "a", "g", "e", "\n",
      "/", "s", "t", "a", "t", "u", "s", " ", "-", " ", "C", "h", "e", "c",
      "k", " ", "b", "o", "t", " ", "s", "t", "a", "t", "u", "s", "\n",
      "/", "k", "e", "y", "b", "o", "a", "r", "d", " ", "-", " ", "S", "h",
      "o", "w", " ", "s", "a", "m", "p", "l", "e", " ", "k", "e", "y", "b",
      "o", "a", "r", "d", "\n", "/", "i", "n", "f", "o", " ", "-", " ",
      "G", "e", "t", " ", "y", "o", "u", "r", " ", "u", "s", "e", "r", " ",
      "i", "n", "f", "o", "\n", " ", " ", " ", " ", " ", " ", " ", " ">>

EchoYouSaid ==
    <<"U+1F504", " ", "Y", "o", "u", " ", "s", "a", "i", "d", ":", " ",
      "<", "i", ">">>

EchoClose ==
    <<"<", "/", "i", ">">>

EchoPrompt ==
    <<"P", "l", "e", "a", "s", "e", " ", "p", "r", "o", "v", "i", "d", "e",
      " ", "t", "e", "x", "t", " ", "t", "o", " ", "e", "c", "h", "o", "!",
      "\n", "\n", "E", "x", "a", "m", "p", "l", "e", ":", " ", "<", "c",
      "o", "d", "e", ">", "/", "e", "c", "h", "o", " ", "H", "e", "l", "l",
      "o", " ", "W", "o", "r", "l", "d", "<", "/", "c", "o", "d", "e", ">">>

StatusText ==
    <<"U+2705", " ", "B", "o", "t", " ", "i", "s", " ", "r", "u", "n", "n",
      "i", "n", "g", " ", "p", "e", "r", "f", "e", "c", "t", "l", "y", "!",
      "\n", "\n", "U+1F680", " ", "F", "a", "s", "t", "A", "P", "I", " ",
      "+", " ", "V", "e", "r", "c", "e", "l", " ", "d", "e", "p", "l", "o",
      "y", "m", "e", "n", "t", " ", "a", "c", "t", "i", "v", "e">>

KeyboardText ==
    <<"U+1F39B", "U+FE0F", " ", "<", "b", ">", "S", "a", "m", "p", "l",
      "e", " ", "K", "e", "y", "b", "o", "a", "r", "d", "<", "/", "b", ">",
      "\n", "\n", "C", "h", "o", "o", "s", "e", " ", "a", "n", " ", "o",
      "p", "t", "i", "o", "n", " ", "b", "e", "l", "o", "w", ":">>

InfoUserId ==
    <<"\n", "U+1F464", " ", "<", "b", ">", "Y", "o", "u", "r", " ", "I",
      "n", "f", "o", "r", "m", "a", "t", "i", "o", "n", ":", "<", "/", "b",
      ">", "\n", "\n", "U+1F194", " ", "U", "s", "e", "r", " ", "I", "D",
      ":", " ", "<", "c", "o", "d", "e", ">">>

InfoName ==
    <<"<", "/", "c", "o", "d", "e", ">", "\n", "U+1F44B", " ", "N", "a",
      "m", "e", ":", " ">>

InfoChatId ==
    <<"\n", "U+1F4AC", " ", "C", "h", "a", "t", " ", "I", "D", ":", " ",
      "<", "c", "o", "d", "e", ">">>

InfoEnd ==
    <<"<", "/", "c", "o", "d", "e", ">", "\n", " ", " ", " ", " ", " ",
      " ", " ", " ", " ", " ", " ", " ">>

InfoUsername ==
    <<"U+1F4DD", " ", "U", "s", "e", "r", "n", "a", "m", "e", ":", " ",
      "@">>

Newline ==
    <<"\n">>

InfoNotAvailable ==
    <<"U+2139", "U+FE0F", " ", "U", "s", "e", "r", " ", "i", "n", "f", "o",
      "r", "m", "a", "t", "i", "o", "n", " ", "n", "o", "t", " ", "a", "v",
      "a", "i", "l", "a", "b", "l", "e">>

DefaultHello ==
    <<"U+1F44B", " ", "H", "e", "l", "l", "o", " ">>

DefaultYouSent ==
    <<"!", "\n", "\n", "U+1F4AC", " ", "Y", "o", "u", " ", "s", "e", "n",
      "t", ":", " ", "<", "i", ">">>

DefaultClose ==
    <<"<", "/", "i", ">", "\n", "\n", "U", "s", "e", " ", "/", "h", "e",
      "l", "p", " ", "t", "o", " ", "s", "e", "e", " ", "a", "v", "a", "i",
      "l", "a", "b", "l", "e", " ", "c", "o", "m", "m", "a", "n", "d", "s",
      ".">>

Btn1 ==
    <<"b", "t", "n", "1">>

Btn2 ==
    <<"b", "t", "n", "2">>

BtnHelp ==
    <<"h", "e", "l", "p">>

BtnAbout ==
    <<"a", "b", "o", "u", "t">>

ClickedBtn1 ==
    <<"U+1F535", " ", "Y", "o", "u", " ", "c", "l", "i", "c", "k", "e",
      "d", " ", "B", "u", "t", "t", "o", "n", " ", "1", "!">>

ClickedBtn2 ==
    <<"U+1F7E2", " ", "Y", "o", "u", " ", "c", "l", "i", "c", "k", "e",
      "d", " ", "B", "u", "t", "t", "o", "n", " ", "2", "!">>

ClickedHelp ==
    <<"U+2753", " ", "T", "h", "i", "s", " ", "i", "s", " ", "t", "h", "e",
      " ", "h", "e", "l", "p", " ", "s", "e", "c", "t", "i", "o", "n", " ",
      "f", "r", "o", "m", " ", "i", "n", "l", "i", "n", "e", " ", "k", "e",
      "y", "b", "o", "a", "r", "d", "!">>

ClickedAbout ==
    <<"U+2139", "U+FE0F", " ", "T", "h", "i", "s", " ", "b", "o", "t", " ",
      "i", "s", " ", "b", "u", "i", "l", "t", " ", "w", "i", "t", "h", " ",
      "F", "a", "s", "t", "A", "P", "I", " ", "a", "n", "d", " ", "d", "e",
      "p", "l", "o", "y", "e", "d", " ", "o", "n", " ", "V", "e", "r", "c",
      "e", "l", "!">>

ClickedOther ==
    <<"U+1F3AF", " ", "Y", "o", "u", " ", "c", "l", "i", "c", "k", "e",
      "d", ":", " ">>

\* str(None), as the f-string of line 253 formats an absent data
NoneStr ==
    <<"N", "o", "n", "e">>

ActionCompleted ==
    <<"U+2705", " ", "A", "c", "t", "i", "o", "n", " ", "c", "o", "m", "p",
      "l", "e", "t", "e", "d", "!">>

LabelBtn1 ==
    <<"U+1F535", " ", "B", "u", "t", "t", "o", "n", " ", "1">>

LabelBtn2 ==
    <<"U+1F7E2", " ", "B", "u", "t", "t", "o", "n", " ", "2">>

LabelHelp ==
    <<"U+2753", " ", "H", "e", "l", "p">>

LabelAbout ==
    <<"U+2139", "U+FE0F", " ", "A", "b", "o", "u", "t">>

\* ---------------------------------------------------------- pydantic models
\* Validation of a JSON object against a model: every field without a
\* default must be present, and a nested object must validate in turn.
\* `from_` is read from the key "from" (Config.fields).  The model's bodies
\* hold values of the declared types only, so type coercion plays no part.

ValidTelegramUser(u) == {"id", "first_name"} \subseteq DOMAIN u

TelegramUser(u) ==
    [id |-> u.id, first_name |-> u.first_name,
     last_name |-> Opt(u, "last_name"), username |-> Opt(u, "username")]

ValidTelegramChat(c) == {"id", "type"} \subseteq DOMAIN c

TelegramChat(c) ==
    [id |-> c.id, type |-> c.type,
     title |-> Opt(c, "title"), first_name |-> Opt(c, "first_name")]

ValidTelegramMessage(m) ==
    /\ {"message_id", "chat", "date"} \subseteq DOMAIN m
    /\ ValidTelegramChat(m.chat)
    /\ "from" \in DOMAIN m => ValidTelegramUser(m["from"])

TelegramMessage(m) ==
    [message_id |-> m.message_id,
     from_ |-> IF "from" \in DOMAIN m THEN Some(TelegramUser(m["from"])) ELSE None,
     chat |-> TelegramChat(m.chat),
     date |-> m.date,
     text |-> Opt(m, "text")]

ValidCallbackQuery(c) ==
    /\ {"id", "from"} \subseteq DOMAIN c
    /\ ValidTelegramUser(c["from"])
    /\ "message" \in DOMAIN c => ValidTelegramMessage(c.message)

CallbackQuery(c) ==
    [id |-> c.id,
     from_ |-> TelegramUser(c["from"]),
     message |-> IF "message" \in DOMAIN c
                 THEN Some(TelegramMessage(c.message)) ELSE None,
     data |-> Opt(c, "data")]

ValidTelegramUpdate(o) ==
    /\ "update_id" \in DOMAIN o
    /\ "message" \in DOMAIN o => ValidTelegramMessage(o.message)
    /\ "callback_query" \in DOMAIN o => ValidCallbackQuery(o.callback_query)

TelegramUpdate(o) ==
    [update_id |-> o.update_id,
     message |-> IF "message" \in DOMAIN o
                 THEN Some(TelegramMessage(o.message)) ELSE None,
     callback_query |-> IF "callback_query" \in DOMAIN o
                        THEN Some(CallbackQuery(o.callback_query)) ELSE None]

\* ------------------------------------------------------------- exceptions

\* The exception classes the model raises; each is a subclass of Exception.
Exceptions ==
    {"JSONDecodeError", "TypeError", "ValidationError", "RequestError",
     "HTTPException"}

\* Variant: the clause names httpx.RequestError where the code names Exception
ExceptException_narrow(e) == e = "RequestError"

\* `except Exception` catches e
ExceptException(e) == e \in Exceptions

\* `except httpx.RequestError` catches e
ExceptRequestError(e) == e = "RequestError"

\* How an outbound HTTP exchange ends: the platform answers JSON with
\* "ok": true; it answers JSON without a true "ok" (a non-success answer);
\* it answers something response.json() cannot decode; the request fails.
HttpOutcomes == {"ok", "not_ok", "not_json", "request_error"}

\* The exception `await client.post(...)` followed by `response.json()`
\* raises, if any
PostRaises(o) ==
    IF o = "request_error" THEN Some("RequestError")
    ELSE IF o = "not_json" THEN Some("JSONDecodeError")
    ELSE None

\* --------------------------------------------------------- outbound client

\* The request send_message posts
send_message(chat_id, text, reply_markup) ==
    LET data == [method |-> "sendMessage", chat_id |-> chat_id,
                 text |-> text, parse_mode |-> "HTML"]
    IN  IF reply_markup # None
        THEN With(data, "reply_markup", reply_markup[1])
        ELSE data

send_message_with_keyboard(chat_id, text, keyboard_buttons) ==
    send_message(chat_id, text, Some([inline_keyboard |-> keyboard_buttons]))

\* The request answer_callback_query posts
answer_callback_query(callback_query_id, text) ==
    LET data == [method |-> "answerCallbackQuery",
                 callback_query_id |-> callback_query_id]
    IN  IF text # None /\ text[1] # <<>>
        THEN With(data, "text", text[1])
        ELSE data

\* send_message once its HTTP exchange ended with o: what it returns, what
\* it prints, and the exception that leaves it
send_message_returns(o) ==
    LET e == PostRaises(o)
    IN  IF e = None
        THEN [ret |-> Some(o), printed |-> <<>>, raised |-> None]
        ELSE IF ExceptException(e[1])
        THEN [ret |-> None, printed |-> <<"Error sending message">>,
              raised |-> None]
        ELSE [ret |-> None, printed |-> <<>>, raised |-> e]

answer_callback_query_returns(o) ==
    LET e == PostRaises(o)
    IN  IF e = None
        THEN [ret |-> Some(o), printed |-> <<>>, raised |-> None]
        ELSE IF ExceptException(e[1])
        THEN [ret |-> None, printed |-> <<"Error answering callback query">>,
              raised |-> None]
        ELSE [ret |-> None, printed |-> <<>>, raised |-> e]

create_sample_keyboard ==
    << << [text |-> LabelBtn1, callback_data |-> Btn1],
          [text |-> LabelBtn2, callback_data |-> Btn2] >>,
       << [text |-> LabelHelp, callback_data |-> BtnHelp],
          [text |-> LabelAbout, callback_data |-> BtnAbout] >> >>

\* -------------------------------------------------------------- dispatcher

\* user_name of handle_message
user_name(message) ==
    IF message.from_ # None THEN message.from_[1].first_name
    ELSE DefaultUserName

\* response_text of the /echo branch
echo_reply(text) ==
    LET echo_text == Strip(Replace(text, CmdEcho, <<>>))
    IN  IF echo_text # <<>> THEN EchoYouSaid \o echo_text \o EchoClose
        ELSE EchoPrompt

\* info_text of the /info branch
info_reply(message) ==
    IF message.from_ # None
    THEN LET from_ == message.from_[1]
             info_text == InfoUserId \o IntToStr(from_.id)
                          \o InfoName \o from_.first_name
                          \o InfoChatId \o IntToStr(message.chat.id)
                          \o InfoEnd
         IN  IF from_.username # None /\ from_.username[1] # <<>>
             THEN info_text \o InfoUsername \o from_.username[1] \o Newline
             ELSE info_text
    ELSE InfoNotAvailable

\* Variant: the reply quotes the text with its surrounding whitespace removed
default_reply_stripped(name, text) ==
    DefaultHello \o name \o DefaultYouSent \o Strip(text) \o DefaultClose

\* response_text of the last branch
default_reply(name, text) ==
    DefaultHello \o name \o DefaultYouSent \o text \o DefaultClose

\* The outbound calls of handle_message, in order
handle_message(message) ==
    LET chat_id == message.chat.id
        text == IF message.text # None THEN message.text[1] ELSE <<>>
    IN  IF StartsWith(text, CmdStart)
        THEN << send_message(chat_id,
                    StartHello \o user_name(message) \o StartWelcome, None) >>
        ELSE IF StartsWith(text, CmdHelp)
        THEN << send_message(chat_id, HelpText, None) >>
        ELSE IF StartsWith(text, CmdEcho)
        THEN << send_message(chat_id, echo_reply(text), None) >>
        ELSE IF StartsWith(text, CmdStatus)
        THEN << send_message(chat_id, StatusText, None) >>
        ELSE IF StartsWith(text, CmdKeyboard)
        THEN << send_message_with_keyboard(chat_id, KeyboardText,
                    create_sample_keyboard) >>
        ELSE IF StartsWith(text, CmdInfo)
        THEN << send_message(chat_id, info_reply(message), None) >>
        ELSE << send_message(chat_id,
                    default_reply(user_name(message), text), None) >>

\* Variant: the tokens are matched as prefixes of data, as the commands are
callback_reply_prefix(data) ==
    LET d == IF data = None THEN NoneStr ELSE data[1]
    IN  IF StartsWith(d, Btn1) THEN ClickedBtn1
        ELSE IF StartsWith(d, Btn2) THEN ClickedBtn2
        ELSE IF StartsWith(d, BtnHelp) THEN ClickedHelp
        ELSE IF StartsWith(d, BtnAbout) THEN ClickedAbout
        ELSE ClickedOther \o d

\* response_text of handle_callback_query
callback_reply(data) ==
    IF data = Some(Btn1) THEN ClickedBtn1
    ELSE IF data = Some(Btn2) THEN ClickedBtn2
    ELSE IF data = Some(BtnHelp) THEN ClickedHelp
    ELSE IF data = Some(BtnAbout) THEN ClickedAbout
    ELSE ClickedOther \o (IF data = None THEN NoneStr ELSE data[1])

\* Variant: the reply is sent and the callback query is never answered
handle_callback_query_no_answer(callback_query) ==
    LET chat_id == IF callback_query.message # None
                   THEN callback_query.message[1].chat.id
                   ELSE callback_query.from_.id
    IN  << send_message(chat_id, callback_reply(callback_query.data), None) >>

\* The outbound calls of handle_callback_query, in order
handle_callback_query(callback_query) ==
    LET chat_id == IF callback_query.message # None
                   THEN callback_query.message[1].chat.id
                   ELSE callback_query.from_.id
    IN  << send_message(chat_id, callback_reply(callback_query.data), None),
           answer_callback_query(callback_query.id, Some(ActionCompleted)) >>

\* Variant: the second test is an `if` where the code has `elif`
process_telegram_update_if_if(u) ==
    (IF u.message # None THEN handle_message(u.message[1]) ELSE <<>>)
    \o (IF u.callback_query # None
        THEN handle_callback_query(u.callback_query[1]) ELSE <<>>)

\* The outbound calls of process_telegram_update, in order
process_telegram_update(u) ==
    IF u.message # None THEN handle_message(u.message[1])
    ELSE IF u.callback_query # None
    THEN handle_callback_query(u.callback_query[1])
    ELSE <<>>

\* ------------------------------------------------------------------ inputs

UserAl ==
    [id |-> 5, first_name |-> <<"A", "l">>, username |-> <<"a", "l">>]

UserBo == [id |-> 12, first_name |-> <<"B", "o">>]

ChatPrivate == [id |-> 7, type |-> "private"]

ChatGroup == [id |-> -42, type |-> "group"]

\* The pieces message texts are built from
Chunks == {CmdEcho, CmdStart, <<" ">>, <<"W">>, <<"/">>}

RECURSIVE ChunkTexts(_)
ChunkTexts(n) ==
    IF n = 0 THEN {<<>>}
    ELSE LET S == ChunkTexts(n - 1) IN S \cup {t \o c : t \in S, c \in Chunks}

\* Each remaining command, bare and with an argument
CommandTexts ==
    {c \o s : c \in {CmdHelp, CmdStatus, CmdKeyboard, CmdInfo},
              s \in {<<>>, <<" ", "W">>}}

\* Texts that only resemble a command
NearMisses ==
    {SubSeq(CmdHelp, 1, 4), <<" ">> \o CmdInfo, <<"\n">> \o CmdStatus,
     <<"/", "E", "c", "h", "o">>, Tail(CmdKeyboard)}

Texts == ChunkTexts(MaxChunks) \cup CommandTexts \cup NearMisses

\* A message object; text and from are Optional
Msg(text, from, chat) ==
    LET base == [message_id |-> 1, chat |-> chat, date |-> 0]
        withText == IF text # None THEN With(base, "text", text[1]) ELSE base
    IN  IF from # None THEN With(withText, "from", from[1]) ELSE withText

\* A callback query object; data and message are Optional
Cq(id, data, message) ==
    LET base == [id |-> id, from |-> UserAl]
        withData == IF data # None THEN With(base, "data", data[1]) ELSE base
    IN  IF message # None THEN With(withData, "message", message[1])
        ELSE withData

MessageUpdates ==
    {[update_id |-> 1, message |-> Msg(t, f, ChatPrivate)] :
        t \in {None} \cup {Some(x) : x \in Texts},
        f \in {None, Some(UserAl)}}
    \cup {[update_id |-> 1, message |-> Msg(Some(t), Some(UserBo), ChatGroup)] :
        t \in CommandTexts \cup NearMisses}

CallbackDatas ==
    {None} \cup {Some(d) : d \in {Btn1, Btn2, BtnHelp, BtnAbout, <<"x">>,
                                  Btn1 \o <<"x">>, <<>>}}

CallbackUpdates ==
    {[update_id |-> 2, callback_query |-> Cq(<<"q", "1">>, d, m)] :
        d \in CallbackDatas,
        m \in {None, Some(Msg(Some(CmdKeyboard), None, ChatGroup))}}

\* Updates that carry a message and a callback query
BothUpdates ==
    {[update_id |-> 3, message |-> Msg(Some(t), Some(UserAl), ChatPrivate),
      callback_query |-> Cq(<<"q", "2">>, d, None)] :
        t \in {CmdStart, <<"W">>}, d \in {Some(Btn1), Some(<<"x">>)}}

\* Updates that carry neither
BareUpdates == {[update_id |-> 4]}

WellFormedBodies ==
    {[kind |-> "object", obj |-> o] :
        o \in MessageUpdates \cup CallbackUpdates \cup BothUpdates
              \cup BareUpdates}

FullMessage == Msg(Some(CmdStart), Some(UserAl), ChatPrivate)

FullCallback == Cq(<<"q", "1">>, Some(Btn1), Some(FullMessage))

\* Bodies that are not JSON, not a JSON object, or lack a required field
MalformedBodies ==
    {[kind |-> "not_json"], [kind |-> "array"]}
    \cup {[kind |-> "object", obj |-> o] : o \in
        { [message |-> FullMessage],
          [callback_query |-> FullCallback],
          [x \in {} |-> 0],
          [update_id |-> 1, message |-> Without(FullMessage, "chat")],
          [update_id |-> 1, message |-> Without(FullMessage, "message_id")],
          [update_id |-> 1, message |-> Without(FullMessage, "date")],
          [update_id |-> 1,
           message |-> With(FullMessage, "chat", Without(ChatPrivate, "id"))],
          [update_id |-> 1,
           message |-> With(FullMessage, "chat", Without(ChatPrivate, "type"))],
          [update_id |-> 1,
           message |-> With(FullMessage, "from", Without(UserAl, "first_name"))],
          [update_id |-> 1,
           message |-> With(FullMessage, "from", Without(UserAl, "id"))],
          [update_id |-> 2, callback_query |-> Without(FullCallback, "id")],
          [update_id |-> 2, callback_query |-> Without(FullCallback, "from")],
          [update_id |-> 2,
           callback_query |-> With(FullCallback, "from", Without(UserBo, "id"))],
          [update_id |-> 2,
           callback_query |->
               With(FullCallback, "message", Without(FullMessage, "chat"))] }}

Bodies == WellFormedBodies \cup MalformedBodies

\* The bodies of the concurrent specification
ConcBodies ==
    {[kind |-> "not_json"]}
    \cup {[kind |-> "object", obj |-> o] : o \in
        { [update_id |-> 1,
           message |-> Msg(Some(CmdEcho \o <<" ", "W">>), Some(UserAl),
                           ChatPrivate)],
          [update_id |-> 1, message |-> Msg(Some(<<"W">>), None, ChatGroup)],
          [update_id |-> 2,
           callback_query |-> Cq(<<"q", "1">>, Some(<<"x">>), None)],
          [update_id |-> 2,
           callback_query |-> Cq(<<"q", "2">>, Some(Btn1), Some(FullMessage))],
          [update_id |-> 4] }}

\* The values of /setup's `action` query parameter
SetupActions == {"set", "delete", "info", "status"}

\* ------------------------------------------------------------ the handlers

NoRequest == [endpoint |-> "none"]

Init ==
    /\ pc = [r \in Requests |-> "idle"]
    /\ req = [r \in Requests |-> NoRequest]
    /\ update = [r \in Requests |-> None]
    /\ calls = [r \in Requests |-> <<>>]
    /\ results = [r \in Requests |-> <<>>]
    /\ printed = [r \in Requests |-> <<>>]
    /\ resp = [r \in Requests |-> None]
    /\ registered \in BOOLEAN

\* The exception `await request.json()` and `TelegramUpdate(**body)` raise,
\* if any
webhook_handler_parse(body) ==
    IF body.kind = "not_json" THEN Some("JSONDecodeError")
    ELSE IF body.kind # "object" THEN Some("TypeError")
    ELSE IF ~ValidTelegramUpdate(body.obj) THEN Some("ValidationError")
    ELSE None

\* Variant: the handler answers success whatever happened
webhook_handler_response_always_ok(e) == [status |-> 200, body |-> "ok"]

\* The response of webhook_handler when e (Optional) reaches its try block
webhook_handler_response(e) ==
    IF e = None THEN [status |-> 200, body |-> "ok"]
    ELSE IF ExceptException(e[1]) THEN [status |-> 400, body |-> "Bad request"]
    ELSE [status |-> 500, body |-> "Internal Server Error"]

webhook_handler_prints(e) ==
    IF e # None /\ ExceptException(e[1])
    THEN <<"Error processing webhook">> ELSE <<>>

\* process_telegram_update when e (Optional) leaves a handler: what it
\* prints and the exception that leaves it
process_telegram_update_except(e) ==
    IF e # None /\ ExceptException(e[1])
    THEN [printed |-> <<"Error processing update">>, raised |-> None]
    ELSE [printed |-> <<>>, raised |-> e]

\* Variant: `update` is a module-level name that every request assigns, so
\* a resumed handler reads the update parsed last (here: the one of the
\* highest slot that holds one)
RequestUpdate_shared(r) ==
    LET S == {q \in Requests : update[q] # None}
    IN  update[CHOOSE q \in S : \A p \in S : p <= q][1]

\* The local `update` of the request in slot r
RequestUpdate(r) == update[r][1]

\* webhook_handler returns or raises: e (Optional) reached its try block
Respond(r, e, lines) ==
    /\ pc' = [pc EXCEPT ![r] = "done"]
    /\ resp' = [resp EXCEPT ![r] = Some(webhook_handler_response(e))]
    /\ printed' = [printed EXCEPT ![r] = @ \o lines \o webhook_handler_prints(e)]

\* POST /webhook arrives in slot r with this body: webhook_handler up to its
\* first outbound call, or to its response when there is none
WebhookReceive(r, body) ==
    /\ pc[r] = "idle"
    /\ req' = [req EXCEPT ![r] = [endpoint |-> "/webhook", body |-> body]]
    /\ results' = results
    /\ registered' = registered
    /\ LET e == webhook_handler_parse(body)
       IN  IF e # None
           THEN /\ Respond(r, e, <<>>)
                /\ UNCHANGED <<update, calls>>
           ELSE LET u == TelegramUpdate(body.obj)
                    plan == process_telegram_update(u)
                IN  /\ update' = [update EXCEPT ![r] = Some(u)]
                    /\ IF plan = <<>>
                       THEN /\ Respond(r, None, <<>>)
                            /\ calls' = calls
                       ELSE /\ calls' = [calls EXCEPT ![r] = <<plan[1]>>]
                            /\ pc' = [pc EXCEPT ![r] = "await"]
                            /\ UNCHANGED <<resp, printed>>

\* The pending call of r ended; out is what the client function returns,
\* prints and raises.  The handler goes on to its next call, or
\* process_telegram_update returns and webhook_handler responds.
Resume(r, o, out) ==
    LET plan == process_telegram_update(RequestUpdate(r))
        n == Len(calls[r])
        left == process_telegram_update_except(out.raised)
    IN  /\ results' = [results EXCEPT ![r] = Append(@, o)]
        /\ UNCHANGED <<req, update, registered>>
        /\ IF out.raised = None /\ n < Len(plan)
           THEN /\ calls' = [calls EXCEPT ![r] = Append(@, plan[n + 1])]
                /\ printed' = [printed EXCEPT ![r] = @ \o out.printed]
                /\ UNCHANGED <<pc, resp>>
           ELSE /\ Respond(r, left.raised, out.printed \o left.printed)
                /\ calls' = calls

PendingCall(r) == calls[r][Len(calls[r])]

\* The sendMessage call of r ends with outcome o
SendMessageReturns(r, o) ==
    /\ pc[r] = "await"
    /\ req[r].endpoint = "/webhook"
    /\ PendingCall(r).method = "sendMessage"
    /\ Resume(r, o, send_message_returns(o))

\* The answerCallbackQuery call of r ends with outcome o
AnswerCallbackQueryReturns(r, o) ==
    /\ pc[r] = "await"
    /\ req[r].endpoint = "/webhook"
    /\ PendingCall(r).method = "answerCallbackQuery"
    /\ Resume(r, o, answer_callback_query_returns(o))

\* ------------------------------------------------------------------ /setup

\* Variant: the last branch calls deleteWebhook
webhook_setup_call_else_delete(action) ==
    IF action = "set"
    THEN [method |-> "setWebhook", url |-> "WEBHOOK_URL/webhook",
          allowed_updates |-> <<"message", "callback_query">>]
    ELSE [method |-> "deleteWebhook"]

\* The platform call webhook_setup makes for an action
webhook_setup_call(action) ==
    IF action = "set"
    THEN [method |-> "setWebhook", url |-> "WEBHOOK_URL/webhook",
          allowed_updates |-> <<"message", "callback_query">>]
    ELSE IF action = "delete" THEN [method |-> "deleteWebhook"]
    ELSE [method |-> "getWebhookInfo"]

\* The response of webhook_setup once its call ended with outcome o
webhook_setup_response(action, o) ==
    LET e == IF PostRaises(o) # None THEN PostRaises(o)
             ELSE IF action = "set" /\ o # "ok" THEN Some("HTTPException")
             ELSE None
    IN  IF e = None
        THEN [status |-> 200,
              body |-> IF action = "set" THEN "Webhook set successfully"
                       ELSE IF action = "delete" THEN "Webhook deleted"
                       ELSE "webhook_info"]
        ELSE IF ExceptRequestError(e[1])
        THEN [status |-> 500, body |-> "Request error"]
        ELSE IF ExceptException(e[1])
        THEN [status |-> 500,
              body |-> IF e[1] = "HTTPException"
                       THEN "400: Failed to set webhook" ELSE e[1]]
        ELSE [status |-> 500, body |-> "Internal Server Error"]

\* Whether the platform may have carried out a call that ended with o:
\* getWebhookInfo changes nothing, an "ok" answer reports the change made,
\* a non-success answer reports that none was; a failed exchange tells
\* nothing.
PlatformApplies(method, o, applied) ==
    /\ method = "getWebhookInfo" => ~applied
    /\ method # "getWebhookInfo" /\ o = "ok" => applied
    /\ o = "not_ok" => ~applied

\* GET /setup arrives in slot r: webhook_setup up to its platform call
SetupReceive(r, action) ==
    /\ pc[r] = "idle"
    /\ req' = [req EXCEPT ![r] = [endpoint |-> "/setup", action |-> action]]
    /\ calls' = [calls EXCEPT ![r] = <<webhook_setup_call(action)>>]
    /\ pc' = [pc EXCEPT ![r] = "await"]
    /\ UNCHANGED <<update, results, printed, resp, registered>>

\* The platform call of /setup ends with outcome o
SetupReturns(r, o, applied) ==
    /\ pc[r] = "await"
    /\ req[r].endpoint = "/setup"
    /\ PlatformApplies(PendingCall(r).method, o, applied)
    /\ registered' = IF applied THEN PendingCall(r).method = "setWebhook"
                     ELSE registered
    /\ results' = [results EXCEPT ![r] = Append(@, o)]
    /\ resp' = [resp EXCEPT ![r] =
                    Some(webhook_setup_response(req[r].action, o))]
    /\ pc' = [pc EXCEPT ![r] = "done"]
    /\ UNCHANGED <<req, update, calls, printed>>

\* The response of r is delivered and the slot is free again
Complete(r) ==
    /\ pc[r] = "done"
    /\ pc' = [pc EXCEPT ![r] = "idle"]
    /\ req' = [req EXCEPT ![r] = NoRequest]
    /\ update' = [update EXCEPT ![r] = None]
    /\ calls' = [calls EXCEPT ![r] = <<>>]
    /\ results' = [results EXCEPT ![r] = <<>>]
    /\ printed' = [printed EXCEPT ![r] = <<>>]
    /\ resp' = [resp EXCEPT ![r] = None]
    /\ registered' = registered

\* ----------------------------------------------------------- specifications

\* No request is in flight
Quiet == \A q \in Requests : pc[q] = "idle"

\* One request at a time, over all the bodies and all the setup actions
Next ==
    \E r \in Requests :
        \/ Quiet /\ \E body \in Bodies : WebhookReceive(r, body)
        \/ Quiet /\ \E action \in SetupActions : SetupReceive(r, action)
        \/ \E o \in HttpOutcomes : SendMessageReturns(r, o)
        \/ \E o \in HttpOutcomes : AnswerCallbackQueryReturns(r, o)
        \/ \E o \in HttpOutcomes, applied \in BOOLEAN : SetupReturns(r, o, applied)
        \/ Complete(r)

Spec == Init /\ [][Next]_vars

\* Requests in flight together, interleaved at their awaits
NextConc ==
    \E r \in Requests :
        \/ \E body \in ConcBodies : WebhookReceive(r, body)
        \/ \E o \in HttpOutcomes : SendMessageReturns(r, o)
        \/ \E o \in HttpOutcomes : AnswerCallbackQueryReturns(r, o)
        \/ Complete(r)

SpecConc == Init /\ [][NextConc]_vars

\* ------------------------------------------------------------------ claims

\* Slot r holds a /webhook request whose body is one of S
Webhook(r, S) == req[r].endpoint = "/webhook" /\ req[r].body \in S

\* The JSON object of r's body
Obj(r) == req[r].body.obj

\* message.text of a JSON message, "" when absent
TextOf(m) == IF "text" \in DOMAIN m THEN m.text ELSE <<>>

SendCalls(r) == SelectSeq(calls[r], LAMBDA c : c.method = "sendMessage")

Raising(r) == SelectSeq(results[r], LAMBDA o : o \in {"not_json", "request_error"})

\* C1: a /webhook request whose body is malformed (not JSON, not an object,
\* or lacking a required field) is answered with HTTP 400 and no outbound
\* call is issued for it.
C1_MalformedIs400NoCall ==
    \A r \in Requests :
        Webhook(r, MalformedBodies) =>
            /\ pc[r] = "done"
            /\ resp[r] = Some([status |-> 400, body |-> "Bad request"])
            /\ calls[r] = <<>>

\* C1 witness: a JSON object with an update_id whose message lacks a required
\* field was answered with 400.
C1_Witness ==
    \E r \in Requests :
        /\ Webhook(r, MalformedBodies)
        /\ req[r].body.kind = "object"
        /\ {"update_id", "message"} \subseteq DOMAIN Obj(r)
        /\ "chat" \notin DOMAIN Obj(r).message
        /\ resp[r] # None /\ resp[r][1].status = 400

Acknowledged(r) ==
    \E i \in DOMAIN calls[r] :
        /\ calls[r][i].method = "answerCallbackQuery"
        /\ calls[r][i].callback_query_id = Obj(r).callback_query.id

\* C3 as stated: every well-formed update that carries a callback query,
\* also one that carries a message too, has its callback query answered
\* before the request completes.
C3_Original ==
    \A r \in Requests :
        /\ Webhook(r, WellFormedBodies) /\ pc[r] = "done"
        /\ "callback_query" \in DOMAIN Obj(r)
        => Acknowledged(r)

\* C3 amended: every well-formed update that carries a callback query and
\* no message has its callback query answered before the request completes,
\* whether or not the reply sendMessage call failed.
C3_CallbackOnlyAcknowledged ==
    \A r \in Requests :
        /\ Webhook(r, WellFormedBodies) /\ pc[r] = "done"
        /\ "callback_query" \in DOMAIN Obj(r)
        /\ "message" \notin DOMAIN Obj(r)
        => Acknowledged(r)

\* C3 witness: the reply of a callback query failed and the query was
\* answered all the same.
C3_Witness ==
    \E r \in Requests :
        /\ Webhook(r, WellFormedBodies) /\ pc[r] = "done"
        /\ "callback_query" \in DOMAIN Obj(r)
        /\ "message" \notin DOMAIN Obj(r)
        /\ results[r][1] = "request_error"
        /\ Acknowledged(r)

\* C4: handling a well-formed update issues at most one sendMessage call:
\* none when the update carries neither a message nor a callback query,
\* exactly one otherwise.
C4_AtMostOneSend ==
    \A r \in Requests :
        Webhook(r, WellFormedBodies) =>
            LET carries == {"message", "callback_query"} \cap DOMAIN Obj(r)
            IN  Len(SendCalls(r)) = IF carries = {} THEN 0 ELSE 1

\* C4 witness: an update that carries both a message and a callback query
\* was handled with one sendMessage call.
C4_Witness ==
    \E r \in Requests :
        /\ Webhook(r, WellFormedBodies) /\ pc[r] = "done"
        /\ {"message", "callback_query"} \subseteq DOMAIN Obj(r)
        /\ Len(SendCalls(r)) = 1

\* C5: /setup with action=info issues only getWebhookInfo and leaves the
\* registration as it was; action=set issues setWebhook and action=delete
\* issues deleteWebhook, which set and clear the registration when the
\* platform accepts them.
C5_InfoNeverMutates ==
    [][\A r \in Requests :
          req[r].endpoint = "/setup" /\ pc[r] = "await" /\ pc'[r] = "done" =>
              LET action == req[r].action
                  methods == {calls'[r][i].method : i \in DOMAIN calls'[r]}
                  ok == results'[r] = <<"ok">>
              IN  /\ action = "info" =>
                      methods = {"getWebhookInfo"} /\ registered' = registered
                  /\ action = "set" =>
                      methods = {"setWebhook"} /\ (ok => registered')
                  /\ action = "delete" =>
                      methods = {"deleteWebhook"} /\ (ok => ~registered')
      ]_vars

\* C5 witness: action=info completed while a webhook is registered.
C5_Witness ==
    \E r \in Requests :
        /\ req[r].endpoint = "/setup" /\ pc[r] = "done"
        /\ req[r].action = "info"
        /\ calls[r] = <<[method |-> "getWebhookInfo"]>>
        /\ registered

NoCommandPrefix(text) ==
    \A c \in {CmdStart, CmdHelp, CmdEcho, CmdStatus, CmdKeyboard, CmdInfo} :
        ~StartsWith(text, c)

\* C6: a message whose text starts with none of the six command prefixes,
\* a message without text included, gets one reply, sent to the message's
\* chat: the default reply, which quotes the text unchanged.
C6_DefaultEcho ==
    \A r \in Requests :
        /\ Webhook(r, WellFormedBodies)
        /\ "message" \in DOMAIN Obj(r)
        /\ NoCommandPrefix(TextOf(Obj(r).message))
        => /\ Len(calls[r]) = 1
           /\ calls[r][1].method = "sendMessage"
           /\ calls[r][1].chat_id = Obj(r).message.chat.id
           /\ StartsWith(calls[r][1].text, DefaultHello)
           /\ Contains(calls[r][1].text,
                  DefaultYouSent \o TextOf(Obj(r).message) \o DefaultClose)

\* C6 witness: a text that starts with "/" and ends with a space, and is no
\* command, was answered.
C6_Witness ==
    \E r \in Requests :
        /\ Webhook(r, WellFormedBodies) /\ pc[r] = "done"
        /\ "message" \in DOMAIN Obj(r)
        /\ LET text == TextOf(Obj(r).message)
           IN  /\ NoCommandPrefix(text)
               /\ Len(text) > 1 /\ text[1] = "/" /\ text[Len(text)] = " "
        /\ Len(calls[r]) = 1

FixedTokens == {Btn1, Btn2, BtnHelp, BtnAbout}

\* C7: a callback query that is handled (its update carries no message) and
\* whose data is none of the fixed tokens gets the generic reply, which
\* holds the data as it came; absent data is written None.
C7_GenericAcknowledgment ==
    \A r \in Requests :
        /\ Webhook(r, WellFormedBodies)
        /\ "callback_query" \in DOMAIN Obj(r)
        /\ "message" \notin DOMAIN Obj(r)
        /\ \/ "data" \notin DOMAIN Obj(r).callback_query
           \/ Obj(r).callback_query.data \notin FixedTokens
        => LET cq == Obj(r).callback_query
               shown == IF "data" \in DOMAIN cq THEN cq.data ELSE NoneStr
           IN  /\ calls[r] # <<>>
               /\ calls[r][1].method = "sendMessage"
               /\ calls[r][1].text = ClickedOther \o shown

\* C7 witness: data that starts with a fixed token and is none was handled.
C7_Witness ==
    \E r \in Requests :
        /\ Webhook(r, WellFormedBodies) /\ pc[r] = "done"
        /\ "callback_query" \in DOMAIN Obj(r)
        /\ "message" \notin DOMAIN Obj(r)
        /\ "data" \in DOMAIN Obj(r).callback_query
        /\ Obj(r).callback_query.data = Btn1 \o <<"x">>
        /\ Contains(calls[r][1].text, Btn1 \o <<"x">>)

\* C8: for a message whose text starts with /echo, with arg the text after
\* that prefix without its surrounding whitespace: the reply is the
\* "please provide text" prompt when arg is empty, and holds arg as typed
\* otherwise.
C8_EchoArgument ==
    \A r \in Requests :
        /\ Webhook(r, WellFormedBodies)
        /\ "message" \in DOMAIN Obj(r)
        /\ StartsWith(TextOf(Obj(r).message), CmdEcho)
        => LET text == TextOf(Obj(r).message)
               arg == Strip(SubSeq(text, Len(CmdEcho) + 1, Len(text)))
           IN  /\ Len(calls[r]) = 1
               /\ arg = <<>> => calls[r][1].text = EchoPrompt
               /\ arg # <<>> => Contains(calls[r][1].text, arg)

\* What handling a body alone issues and answers: webhook_handler run from
\* its first line to its last with nothing else in flight
Alone(body) ==
    IF webhook_handler_parse(body) # None
    THEN [calls |-> <<>>, resp |-> [status |-> 400, body |-> "Bad request"]]
    ELSE [calls |-> process_telegram_update(TelegramUpdate(body.obj)),
          resp |-> [status |-> 200, body |-> "ok"]]

IsPrefix(s, t) == Len(s) <= Len(t) /\ SubSeq(t, 1, Len(s)) = s

\* C9: under every interleaving of the requests in flight, the outbound
\* calls issued for a request (targets, texts, order) and its response are
\* those of handling its own body alone.
C9_Independent ==
    \A r \in Requests :
        Webhook(r, ConcBodies) =>
            /\ IsPrefix(calls[r], Alone(req[r].body).calls)
            /\ pc[r] = "done" =>
                   /\ calls[r] = Alone(req[r].body).calls
                   /\ resp[r] = Some(Alone(req[r].body).resp)

\* C9 witness: two callback queries are in the middle of their handlers
\* together, and they differ.
C9_Witness ==
    \E r, q \in Requests :
        /\ r # q
        /\ Webhook(r, ConcBodies) /\ Webhook(q, ConcBodies)
        /\ req[r].body # req[q].body
        /\ pc[r] = "await" /\ Len(calls[r]) = 2
        /\ pc[q] = "await" /\ Len(calls[q]) = 2

\* C10: /setup with action=set answers 400 when the platform's answer has
\* no true "ok"; 500 only when the request failed or something unexpected
\* was raised.
C10_SetFailureIs400 ==
    \A r \in Requests :
        req[r].endpoint = "/setup" /\ pc[r] = "done" /\ req[r].action = "set"
        => /\ results[r] = <<"not_ok">> => resp[r][1].status = 400
           /\ resp[r][1].status = 500 =>
                  results[r][1] \in {"not_json", "request_error"}

=============================================================================
